---- MODULE Spec2Model ----
(***************************************************************************)
(* State-machine model of the bird-blinds stepper controller.              *)
(*                                                                         *)
(* Two builds of the same logic live in the repository:                    *)
(*   - src/src/main.cpp: the firmware (setup, motorControlTask, the web    *)
(*     handlers and the motor functions as globals).  Specification Spec.  *)
(*   - src/src/MotorControl.cpp + Storage.cpp + WebServerManager.cpp: the  *)
(*     same motor functions as a class with a public interface.  No caller *)
(*     of the control-side interface is in the sources, so the class is    *)
(*     driven by its most general client: after begin(), the control       *)
(*     thread calls the public operations in any order.  Specification     *)
(*     SpecMC is the motor operations against the status route of the      *)
(*     network thread (the position mutex); specification SpecMQ is the    *)
(*     command mailbox against the command routes (the command mutex);     *)
(*     specification SpecST is the operations that change what the status  *)
(*     route reports against getStatusJSON taken statement by statement.   *)
(*   SpecLive and SpecMCFair add the fairness of the control thread to the *)
(*   firmware (between two power cycles) and to SpecMC.                    *)
(*                                                                         *)
(* The control thread runs one operation at a time, one action per loop    *)
(* iteration or lock access.  Every read of a limit switch is an input: it *)
(* can return either value.  A timed xSemaphoreTake succeeds when the      *)
(* mutex is free and can time out only while the other thread holds it.    *)
(*                                                                         *)
(* Step budgets, buffers and ranges are scaled down; the scaled values are *)
(* the bounds below.                                                       *)
(***************************************************************************)
EXTENDS Integers, Sequences, FiniteSets, TLC

\* ---- scaled program quantities (bounds of the model) ----
\* int maxCalibrationSteps = 50000 / int maxSteps = 50000
maxCalibrationSteps == 2
\* #define DEFAULT_SAFETY_BUFFER 200
DEFAULT_SAFETY_BUFFER == 1
\* deployedPosition > 100000 is rejected by the load
MaxStoredDeployed == 2
\* the 't' command's 100 unchecked pulses
TestPulses == 1
\* window of tracked positions explored: -PosMax .. PosMax
PosMax == 3
\* largest |steps| / |target| the general client passes to moveSteps / moveToPosition
MaxMove == 2

CMD_NONE == "CMD_NONE"
CMD_DEPLOY == "CMD_DEPLOY"
CMD_RETRACT == "CMD_RETRACT"
CMD_CALIBRATE == "CMD_CALIBRATE"
MotorCommand == {CMD_NONE, CMD_DEPLOY, CMD_RETRACT, CMD_CALIBRATE}

VARIABLES
  \* synchronisation: "null" (not created), "free", "ctl" or "net" (holder)
  positionMutex, commandMutex,
  \* shared motor state
  currentPosition, retractedPosition, deployedPosition, safeDeployedPosition,
  safetyBuffer, calibrated, pendingCommand,
  \* persisted record [magic, deployed, buffer]; magic = (stored marker = 0xBD01)
  eeprom,
  \* control thread: position, where a finished operation returns to, the
  \* continuation of a getPosition/setPosition call, and its locals
  pc, phase, k, cmd, target, forward, absSteps, i, stepCount, pos, arg, checkLimits,
  \* network thread: position and the command of the request being handled
  npc, ncmd,
  \* observation of the run (history)
  op,          \* operation the control thread is in
  dirPin,      \* last level that operation wrote to DIR_PIN, "unset" if none
  pulses,      \* step pulses emitted in its current seek or move
  saves,       \* persistence writes since that operation started
  fwdHit,      \* the operation sampled the deployed limit asserted in moveSteps
  hitPos,      \* Position when that sample was taken
  hitDep,      \* deployed endpoint when that sample was taken
  overwrote,   \* the last store replaced a different, unconsumed command
  lastStored,  \* last command stored since the last dequeue
  lockMiss,    \* a position-mutex take of the operation timed out
  loaded,      \* what the operation's load returned: "none", "true", "false"
  deqOver,     \* the dequeued command had replaced a different one
  seekRecorded, \* the deployed endpoint is the count calibrate's deploy seek recorded
  afterDeploy, \* the operation before this one was a deploy() that was not rejected
  pinsReady,   \* pinMode has configured the five pins and EN_PIN is driven
  startPos,    \* Position when the operation's moveSteps call or homing began
  missed,      \* pulses of that call whose position-mutex take timed out
  \* /api/status: the values getStatusJSON has read for its response
  spos, scal, sdep,
  seen         \* <<calibrated, Position, deployed>> triples that held at some instant
               \* since the handler began and agree with what it has read so far

mutexes == <<positionMutex, commandMutex>>
motor == <<currentPosition, retractedPosition, deployedPosition,
           safeDeployedPosition, safetyBuffer, calibrated>>
locals == <<k, cmd, target, forward, absSteps, i, stepCount, pos, arg, checkLimits>>
net == <<npc, ncmd>>
hist == <<op, pulses, saves, fwdHit, hitPos, hitDep, lockMiss>>
mbox == <<pendingCommand, overwrote, lastStored>>
obs == <<loaded, deqOver>>
seq == <<seekRecorded, afterDeploy>>
snap == <<spos, scal, sdep>>
mv == <<startPos, missed>>
vars == <<positionMutex, commandMutex, currentPosition, retractedPosition,
          deployedPosition, safeDeployedPosition, safetyBuffer, calibrated,
          pendingCommand, eeprom, dirPin, pc, phase, k, cmd, target, forward,
          absSteps, i, stepCount, pos, arg, checkLimits, npc, ncmd, op, pulses,
          saves, fwdHit, hitPos, hitDep, overwrote, lastStored,
          lockMiss, loaded, deqOver, seekRecorded, afterDeploy, pinsReady,
          startPos, missed, spos, scal, sdep, seen>>

\* EEPROM contents the first boot can find: erased or foreign data, or a record
\* written earlier.  The stored buffer is a raw long that no code checks; the
\* record with buffer 0 stands for the non-positive values.
InitialEeprom ==
  { [magic |-> FALSE, deployed |-> 2, buffer |-> DEFAULT_SAFETY_BUFFER],
    [magic |-> TRUE, deployed |-> 2, buffer |-> 0],
    [magic |-> TRUE, deployed |-> 2, buffer |-> DEFAULT_SAFETY_BUFFER],
    [magic |-> TRUE, deployed |-> MaxStoredDeployed,
     buffer |-> DEFAULT_SAFETY_BUFFER + 2],
    [magic |-> TRUE, deployed |-> 0, buffer |-> DEFAULT_SAFETY_BUFFER + 2],
    [magic |-> TRUE, deployed |-> MaxStoredDeployed + 1,
     buffer |-> DEFAULT_SAFETY_BUFFER] }

\* Static initialisers (main.cpp:22-58, MotorControl.cpp:6-14); the EEPROM
\* survives a power cycle.
Boot(first, e) ==
  /\ positionMutex = "null" /\ commandMutex = "null"
  /\ currentPosition = 0 /\ retractedPosition = 0 /\ deployedPosition = 0
  /\ safeDeployedPosition = 0 /\ safetyBuffer = DEFAULT_SAFETY_BUFFER
  /\ calibrated = FALSE /\ pendingCommand = CMD_NONE
  /\ eeprom = e
  /\ dirPin = "unset"
  /\ pc = first /\ phase = "setup" /\ k = "none" /\ cmd = CMD_NONE
  /\ target = 0 /\ forward = FALSE /\ absSteps = 0 /\ i = 0 /\ stepCount = 0
  /\ pos = 0 /\ arg = 0 /\ checkLimits = TRUE
  /\ npc = "off" /\ ncmd = CMD_NONE
  /\ op = "none" /\ pulses = 0 /\ saves = 0 /\ fwdHit = FALSE /\ hitPos = 0
  /\ hitDep = 0 /\ overwrote = FALSE /\ lastStored = CMD_NONE
  /\ lockMiss = FALSE /\ loaded = "none" /\ deqOver = FALSE
  /\ seekRecorded = FALSE /\ afterDeploy = FALSE
  /\ pinsReady = FALSE /\ spos = 0 /\ scal = FALSE /\ sdep = 0 /\ seen = {}
  /\ startPos = 0 /\ missed = 0

Init == \E e \in InitialEeprom : Boot("su_mutex", e)

InitMC == \E e \in InitialEeprom : Boot("mc_begin", e)

\* ---- persistence (Storage.cpp / main.cpp:550-593) ----

\* Seeded fault: the buffer written is the configured default, not the member.
SavedRecord_DefaultBuffer(d, b) ==
  [magic |-> TRUE, deployed |-> d, buffer |-> DEFAULT_SAFETY_BUFFER]

\* What saveCalibration leaves in the EEPROM: marker, deployed, buffer.
SavedRecord(d, b) == [magic |-> TRUE, deployed |-> d, buffer |-> b]

\* The two checks of the load: marker, then 0 < deployed <= 100000.
MagicMatches(e) == e.magic

\* Seeded fault: the upper limit of the range check is left out.
DeployedInRange_NoUpperLimit(d) == ~(d <= 0)

DeployedInRange(d) == ~(d <= 0 \/ d > MaxStoredDeployed)

\* Seeded fault: the range check of the stored endpoint is skipped.
LoadCalibrationOk_MagicOnly(e) == MagicMatches(e)

LoadCalibrationOk(e) == MagicMatches(e) /\ DeployedInRange(e.deployed)

\* `long pos = 0;` is what getPosition returns when the take times out.
GetPositionTimeoutValue == 0

\* Seeded fault: the buffer is not subtracted.
SafeDeployed_NoBuffer(d, b) == d

\* safeDeployedPosition = deployedPosition - safetyBuffer, wherever it is computed.
SafeDeployed(d, b) == d - b

\* ---- getPosition / setPosition on the control thread ----
\* (MotorControl.cpp:74-92, main.cpp:329-347); k is the caller's continuation.

\* ---- what a status request in progress can have seen ----

\* getStatusJSON is between its first statement and the send.
StatusActive == npc \in {"sj_pos", "sj_cal", "sj_dep", "sj_send"}

\* The control thread has just passed through the instants T, each a triple
\* <<calibrated, Position, deployed endpoint>>.  They are kept while a status
\* request is in progress, as far as they agree with every value the request
\* has read so far.
Observe(T) ==
  IF StatusActive
  THEN seen \cup {t \in T : /\ (npc = "sj_pos" \/ t[2] = spos)
                            /\ (npc \in {"sj_pos", "sj_cal"} \/ t[1] = scal)
                            /\ (npc \in {"sj_pos", "sj_cal", "sj_dep"} \/ t[3] = sdep)}
  ELSE seen

\* The state after the step, as an instant.
After == {<<calibrated', currentPosition', deployedPosition'>>}

\* A load writes deployedPosition first and the calibrated flag last.
AfterLoad ==
  {<<calibrated, currentPosition, deployedPosition'>>,
   <<calibrated', currentPosition', deployedPosition'>>}


GetPositionTake ==
  /\ pc = "gp_take"
  /\ \/ /\ positionMutex = "free"
        /\ positionMutex' = "ctl" /\ pc' = "gp_read"
        /\ UNCHANGED <<pos, lockMiss>>
     \/ /\ positionMutex = "net"
        /\ pos' = GetPositionTimeoutValue /\ pc' = k /\ lockMiss' = TRUE
        /\ UNCHANGED positionMutex
  /\ UNCHANGED <<mv, snap, pinsReady, seen, seq, commandMutex, motor, mbox, eeprom, dirPin, phase, k, cmd, target,
                 forward, absSteps, i, stepCount, arg, checkLimits, net, op,
                 pulses, saves, fwdHit, hitPos, hitDep, obs>>

GetPositionRead ==
  /\ pc = "gp_read"
  /\ pos' = currentPosition
  /\ positionMutex' = "free" /\ pc' = k
  /\ UNCHANGED <<mv, snap, pinsReady, seen, seq, commandMutex, motor, mbox, eeprom, dirPin, phase, k, cmd, target,
                 forward, absSteps, i, stepCount, arg, checkLimits, net, hist,
                 obs>>

\* Seeded fault: the write goes through without the lock.
SetPositionOnTimeout_Writes(cur, p) == p

\* setPosition has no else branch for a failed take: the stored position stays
\* as it was and the caller is not told.
SetPositionOnTimeout(cur, p) == cur

SetPositionTake ==
  /\ pc = "sp_take"
  /\ \/ /\ positionMutex = "free" /\ positionMutex' = "ctl" /\ pc' = "sp_write"
        /\ UNCHANGED <<lockMiss, currentPosition>>
     \/ /\ positionMutex = "net" /\ pc' = k /\ lockMiss' = TRUE
        /\ currentPosition' = SetPositionOnTimeout(currentPosition, arg)
        /\ UNCHANGED positionMutex
  /\ UNCHANGED <<mv, snap, pinsReady, seen, seq, commandMutex, retractedPosition, deployedPosition,
                 safeDeployedPosition, safetyBuffer, calibrated, mbox, eeprom,
                 dirPin, phase, locals, net, op, pulses, saves, fwdHit, hitPos,
                 hitDep, obs>>

SetPositionWrite ==
  /\ pc = "sp_write"
  /\ currentPosition' = arg /\ positionMutex' = "free" /\ pc' = k
  /\ UNCHANGED <<mv, snap, pinsReady, seq, commandMutex, retractedPosition, deployedPosition,
                 safeDeployedPosition, safetyBuffer, calibrated, mbox, eeprom,
                 dirPin, phase, locals, net, hist, obs>>
  /\ seen' = Observe(After)

\* ---- moveSteps (MotorControl.cpp:123-189, main.cpp:352-418) ----

\* Seeded fault: the direction output is driven to the opposite level.
DirLevel_Inverted(steps) == IF steps > 0 THEN "LOW" ELSE "HIGH"

\* digitalWrite(DIR_PIN, forward ? HIGH : LOW) with forward = steps > 0.
DirLevel(steps) == IF steps > 0 THEN "HIGH" ELSE "LOW"

\* Entry of moveSteps(steps, cl): return at once on 0, else write the direction
\* output and start the loop.  The move is explored only inside the window.
MoveStepsEntry(steps, cl) ==
  IF steps = 0
  THEN /\ pc' = "done"
       /\ startPos' = currentPosition /\ missed' = 0
       /\ UNCHANGED <<forward, dirPin, absSteps, i, checkLimits>>
  ELSE /\ currentPosition + steps \in (0 - PosMax)..PosMax
       /\ startPos' = currentPosition /\ missed' = 0
       /\ forward' = (steps > 0)
       /\ dirPin' = DirLevel(steps)
       /\ absSteps' = IF steps > 0 THEN steps ELSE 0 - steps
       /\ i' = 0 /\ checkLimits' = cl
       /\ pc' = "ms_loop"

\* Seeded fault: the bookkeeping counts against the direction of travel.
StepDelta_Reversed(fwd) == IF fwd THEN 0 - 1 ELSE 1

\* One pulse's bookkeeping: +1 toward deployment, -1 toward retraction.
StepDelta(fwd) == IF fwd THEN 1 ELSE 0 - 1

\* Seeded fault: a timed-out take ends the move.
AfterMissedTake_Abort(n, total) == total

\* A timed-out take after a pulse has no else branch: the for loop goes on
\* with its next iteration.
AfterMissedTake(n, total) == n + 1

\* One loop iteration up to the position-mutex take: the loop test, the limit
\* sample for the direction of travel, the pulse, and the 1 ms take.
MoveStepsLoop ==
  /\ pc = "ms_loop"
  /\ \/ /\ i >= absSteps
        /\ pc' = "done"
        /\ UNCHANGED <<positionMutex, k, i, pulses, fwdHit, hitPos, hitDep, lockMiss, missed>>
     \/ /\ i < absSteps /\ checkLimits /\ forward
        \* isDeployedLimitHit() read asserted
        /\ k' = "ms_fhit" /\ pc' = "gp_take"
        /\ fwdHit' = TRUE /\ hitPos' = currentPosition /\ hitDep' = deployedPosition
        /\ UNCHANGED <<positionMutex, i, pulses, lockMiss, missed>>
     \/ /\ i < absSteps /\ checkLimits /\ ~forward
        \* isRetractedLimitHit() read asserted
        /\ k' = "ms_bhit" /\ pc' = "gp_take"
        /\ UNCHANGED <<positionMutex, i, pulses, fwdHit, hitPos, hitDep, lockMiss, missed>>
     \/ /\ i < absSteps
        \* no checked switch read asserted: one pulse, then the take
        /\ pulses' = pulses + 1
        /\ \/ /\ positionMutex = "free"
              /\ positionMutex' = "ctl" /\ pc' = "ms_inc"
              /\ UNCHANGED <<i, lockMiss, missed>>
           \/ /\ positionMutex = "net"
              /\ i' = AfterMissedTake(i, absSteps)
              /\ lockMiss' = TRUE /\ missed' = missed + 1
              /\ UNCHANGED <<positionMutex, pc>>
        /\ UNCHANGED <<k, fwdHit, hitPos, hitDep>>
  /\ UNCHANGED <<startPos, snap, pinsReady, seen, seq, commandMutex, motor, mbox, eeprom, dirPin, phase, cmd, target,
                 forward, absSteps, stepCount, pos, arg, checkLimits, net, op,
                 saves, obs>>

\* Seeded fault: the position mutex is not given back after the update.
MoveStepsUpdate_KeepsLock ==
  /\ pc = "ms_inc"
  /\ currentPosition' = currentPosition + StepDelta(forward)
  /\ i' = i + 1 /\ pc' = "ms_loop"
  /\ UNCHANGED <<mv, snap, pinsReady, seq, mutexes, retractedPosition, deployedPosition,
                 safeDeployedPosition, safetyBuffer, calibrated, mbox, eeprom,
                 dirPin, phase, k, cmd, target, forward, absSteps, stepCount, pos,
                 arg, checkLimits, net, hist, obs>>
  /\ seen' = Observe(After)

\* The update under the position mutex: +-1, give, next iteration.
MoveStepsUpdate ==
  /\ pc = "ms_inc"
  /\ currentPosition' = currentPosition + StepDelta(forward)
  /\ positionMutex' = "free" /\ i' = i + 1 /\ pc' = "ms_loop"
  /\ UNCHANGED <<mv, snap, pinsReady, seq, commandMutex, retractedPosition, deployedPosition,
                 safeDeployedPosition, safetyBuffer, calibrated, mbox, eeprom,
                 dirPin, phase, k, cmd, target, forward, absSteps, stepCount, pos,
                 arg, checkLimits, net, hist, obs>>
  /\ seen' = Observe(After)

\* The endpoint the deployed-limit branch leaves, given what getPosition returned.
CorrectedDeployed(currPos, deployed) == IF currPos # deployed THEN currPos ELSE deployed

\* After getPosition in the deployed-limit branch: correct the endpoint when the
\* value differs, save, then setPosition(deployedPosition) and return.
\* Seeded fault: the limit branch falls through to the next iteration.
AfterLimitHit_NextStep == "ms_loop"

\* Both limit branches end in `return;`.
AfterLimitHit == "done"

MoveStepsDeployedHit ==
  /\ pc = "ms_fhit"
  /\ deployedPosition' = CorrectedDeployed(pos, deployedPosition)
  /\ IF pos # deployedPosition
     THEN /\ safeDeployedPosition' = SafeDeployed(deployedPosition', safetyBuffer)
          /\ eeprom' = SavedRecord(deployedPosition', safetyBuffer)
          /\ saves' = saves + 1
     ELSE UNCHANGED <<safeDeployedPosition, eeprom, saves>>
  /\ seekRecorded' = (seekRecorded /\ pos = deployedPosition)
  /\ arg' = deployedPosition' /\ k' = AfterLimitHit /\ pc' = "sp_take"
  /\ UNCHANGED <<mv, snap, pinsReady, afterDeploy, mutexes, currentPosition, retractedPosition, safetyBuffer,
                 calibrated, mbox, dirPin, phase, cmd, target, forward, absSteps,
                 i, stepCount, pos, checkLimits, net, op, pulses, fwdHit, hitPos,
                 hitDep, obs, lockMiss>>
  /\ seen' = Observe(After)

\* Seeded fault: the branch returns without looking at the position.
NeedsReset_Never(currPos) == FALSE

\* if (currPos != 0) { setPosition(0); retractedPosition = 0; }
NeedsReset(currPos) == currPos # 0

\* After getPosition in the retracted-limit branch.
MoveStepsRetractedHit ==
  /\ pc = "ms_bhit"
  /\ IF NeedsReset(pos)
     THEN arg' = 0 /\ k' = "ms_bhit2" /\ pc' = "sp_take"
     ELSE pc' = AfterLimitHit /\ UNCHANGED <<arg, k>>
  /\ UNCHANGED <<mv, snap, pinsReady, seen, seq, mutexes, motor, mbox, eeprom, dirPin, phase, cmd, target, forward,
                 absSteps, i, stepCount, pos, checkLimits, net, hist, obs>>

MoveStepsRetractedReset ==
  /\ pc = "ms_bhit2"
  /\ retractedPosition' = 0 /\ pc' = AfterLimitHit
  /\ UNCHANGED <<mv, snap, pinsReady, seen, seq, mutexes, currentPosition, deployedPosition, safeDeployedPosition,
                 safetyBuffer, calibrated, mbox, eeprom, dirPin, phase, locals,
                 net, hist, obs>>

\* ---- deploy / retract / moveToPosition (MotorControl.cpp:266-307) ----

\* Seeded fault: the calibration guard is missing.
Rejected_Never(isCal) == FALSE

\* deploy() and retract() do nothing unless calibrated.
Rejected(isCal) == ~isCal

Deploy ==
  /\ pc = "deploy"
  /\ IF Rejected(calibrated)
     THEN pc' = "done" /\ UNCHANGED <<target, k>>
     ELSE target' = safeDeployedPosition /\ k' = "mtp_calc" /\ pc' = "gp_take"
  /\ UNCHANGED <<mv, snap, pinsReady, seen, seq, mutexes, motor, mbox, eeprom, dirPin, phase, cmd, forward,
                 absSteps, i, stepCount, pos, arg, checkLimits, net, hist, obs>>

Retract ==
  /\ pc = "retract"
  /\ IF Rejected(calibrated)
     THEN pc' = "done" /\ UNCHANGED <<target, k>>
     ELSE target' = retractedPosition /\ k' = "mtp_calc" /\ pc' = "gp_take"
  /\ UNCHANGED <<mv, snap, pinsReady, seen, seq, mutexes, motor, mbox, eeprom, dirPin, phase, cmd, forward,
                 absSteps, i, stepCount, pos, arg, checkLimits, net, hist, obs>>

\* Seeded fault: the operands of the difference are swapped.
StepsToMove_Swapped(t, p) == p - t

\* long stepsToMove = targetPosition - getPosition();
StepsToMove(t, p) == t - p

\* moveToPosition after its getPosition: nothing to do on 0, else moveSteps.
MoveToPositionCalc ==
  /\ pc = "mtp_calc"
  /\ MoveStepsEntry(StepsToMove(target, pos), TRUE)
  /\ UNCHANGED <<snap, pinsReady, seen, seq, mutexes, motor, mbox, eeprom, phase, k, cmd, target, stepCount,
                 pos, arg, net, hist, obs>>

\* ---- calibrate (MotorControl.cpp:191-264, main.cpp:420-493) ----

\* Seeded fault: the budget test lets one more iteration through.
BudgetLeft_OffByOne(n) == n <= maxCalibrationSteps

\* The second conjunct of every seek loop: stepCount < maxCalibrationSteps.
BudgetLeft(n) == n < maxCalibrationSteps

\* Retract seek: sample the retracted limit, break on a hit, else one pulse;
\* at most maxCalibrationSteps iterations.  Then setPosition(0).
CalibrateRetractSeek ==
  /\ pc = "cal_r"
  /\ \/ /\ BudgetLeft(i)
        \* isRetractedLimitHit() read not asserted
        /\ pulses' = pulses + 1 /\ i' = i + 1
        /\ UNCHANGED <<pc, arg, k>>
     \/ \* read asserted (break), or budget used up
        /\ arg' = 0 /\ k' = "cal_d0" /\ pc' = "sp_take"
        /\ UNCHANGED <<pulses, i>>
  /\ UNCHANGED <<mv, snap, pinsReady, seen, seq, mutexes, motor, mbox, eeprom, dirPin, phase, cmd, target, forward,
                 absSteps, stepCount, pos, checkLimits, net, op, saves, fwdHit,
                 hitPos, hitDep, obs, lockMiss>>

\* retractedPosition = 0, the pause, direction to deployed, stepCount = 0.
CalibrateZeroed ==
  /\ pc = "cal_d0"
  /\ retractedPosition' = 0 /\ dirPin' = "HIGH" /\ stepCount' = 0 /\ i' = 0
  /\ pulses' = 0 /\ pc' = "cal_d"
  /\ UNCHANGED <<mv, snap, pinsReady, seen, seq, mutexes, currentPosition, deployedPosition, safeDeployedPosition,
                 safetyBuffer, calibrated, mbox, eeprom, phase, k, cmd, target,
                 forward, absSteps, pos, arg, checkLimits, net, op, saves, fwdHit,
                 hitPos, hitDep, lockMiss, obs>>

\* Seeded fault: the sample that found the switch is counted as a step.
RecordedEndpoint_CountsLastSample(count) == count + 1

\* deployedPosition = stepCount;
RecordedEndpoint(count) == count

\* Deploy seek: sample the deployed limit, break on a hit, else one pulse and
\* stepCount++.  Then deployedPosition = stepCount; setPosition(deployedPosition).
CalibrateDeploySeek ==
  /\ pc = "cal_d"
  /\ \/ /\ BudgetLeft(i)
        /\ pulses' = pulses + 1 /\ i' = i + 1 /\ stepCount' = stepCount + 1
        /\ UNCHANGED <<pc, arg, k, deployedPosition>>
     \/ /\ deployedPosition' = RecordedEndpoint(stepCount)
        /\ arg' = deployedPosition' /\ k' = "cal_fin" /\ pc' = "sp_take"
        /\ UNCHANGED <<pulses, i, stepCount>>
  /\ UNCHANGED <<mv, snap, pinsReady, seq, mutexes, currentPosition, retractedPosition, safeDeployedPosition,
                 safetyBuffer, calibrated, mbox, eeprom, dirPin, phase, cmd, target,
                 forward, absSteps, pos, checkLimits, net, op, saves, fwdHit,
                 hitPos, hitDep, obs, lockMiss>>
  /\ seen' = Observe(After)

\* Seeded fault: calibrate() returns after the save, without retract().
CalibrateFinish_NoReturnHome ==
  /\ pc = "cal_fin"
  /\ safeDeployedPosition' = SafeDeployed(deployedPosition, safetyBuffer)
  /\ calibrated' = TRUE /\ seekRecorded' = TRUE
  /\ eeprom' = SavedRecord(deployedPosition, safetyBuffer)
  /\ saves' = saves + 1 /\ pulses' = 0
  /\ pc' = "done"
  /\ UNCHANGED <<mv, snap, pinsReady, afterDeploy, mutexes, currentPosition, retractedPosition, deployedPosition,
                 safetyBuffer, mbox, dirPin, phase, k, target, cmd, forward, absSteps, i,
                 stepCount, pos, arg, checkLimits, net, op, fwdHit, hitPos,
                 hitDep, obs, lockMiss>>
  /\ seen' = Observe(After)

\* Seeded fault: the return-home retract starts without the save.
CalibrateFinish_NoSave ==
  /\ pc = "cal_fin"
  /\ safeDeployedPosition' = SafeDeployed(deployedPosition, safetyBuffer)
  /\ calibrated' = TRUE /\ seekRecorded' = TRUE
  /\ pulses' = 0
  /\ target' = retractedPosition /\ k' = "mtp_calc" /\ pc' = "gp_take"
  /\ UNCHANGED <<mv, snap, pinsReady, afterDeploy, mutexes, currentPosition, retractedPosition, deployedPosition,
                 safetyBuffer, mbox, eeprom, saves, dirPin, phase, cmd, forward, absSteps, i,
                 stepCount, pos, arg, checkLimits, net, op, fwdHit, hitPos,
                 hitDep, obs, lockMiss>>
  /\ seen' = Observe(After)

\* safeDeployedPosition, calibrated = true, the save, then retract(), which
\* (now calibrated) is moveToPosition(retractedPosition).
CalibrateFinish ==
  /\ pc = "cal_fin"
  /\ safeDeployedPosition' = SafeDeployed(deployedPosition, safetyBuffer)
  /\ calibrated' = TRUE /\ seekRecorded' = TRUE
  /\ eeprom' = SavedRecord(deployedPosition, safetyBuffer)
  /\ saves' = saves + 1 /\ pulses' = 0
  /\ target' = retractedPosition /\ k' = "mtp_calc" /\ pc' = "gp_take"
  /\ UNCHANGED <<mv, snap, pinsReady, afterDeploy, mutexes, currentPosition, retractedPosition, deployedPosition,
                 safetyBuffer, mbox, dirPin, phase, cmd, forward, absSteps, i,
                 stepCount, pos, arg, checkLimits, net, op, fwdHit, hitPos,
                 hitDep, obs, lockMiss>>
  /\ seen' = Observe(After)

\* ---- homeToRetractedPosition (MotorControl.cpp:309-340, main.cpp:595-626) ----

\* while (!isRetractedLimitHit() && stepCount < maxSteps) pulse.
HomeSeek ==
  /\ pc = "home_loop"
  /\ \/ /\ BudgetLeft(stepCount)
        /\ pulses' = pulses + 1 /\ stepCount' = stepCount + 1
        /\ UNCHANGED pc
     \/ /\ pc' = "home_fin"
        /\ UNCHANGED <<pulses, stepCount>>
  /\ UNCHANGED <<mv, snap, pinsReady, seen, seq, mutexes, motor, mbox, eeprom, dirPin, phase, k, cmd, target,
                 forward, absSteps, i, pos, arg, checkLimits, net, op, saves,
                 fwdHit, hitPos, hitDep, obs, lockMiss>>

\* Seeded fault: Position is zeroed whether or not the switch was found.
HomeFinish_ZeroesAnyway ==
  /\ pc = "home_fin"
  /\ \/ arg' = 0 /\ k' = "home_ret0" /\ pc' = "sp_take" /\ UNCHANGED currentPosition
     \/ pc' = "done" /\ currentPosition' = 0 /\ UNCHANGED <<arg, k>>
  /\ UNCHANGED <<mv, snap, pinsReady, seen, seq, mutexes, retractedPosition, deployedPosition,
                 safeDeployedPosition, safetyBuffer, calibrated, mbox, eeprom, dirPin,
                 phase, cmd, target, forward, absSteps, i, stepCount, pos, checkLimits,
                 net, hist, obs>>

\* The second read of the switch after the loop decides whether home is set.
HomeFinish ==
  /\ pc = "home_fin"
  /\ \/ arg' = 0 /\ k' = "home_ret0" /\ pc' = "sp_take"
     \/ pc' = "done" /\ UNCHANGED <<arg, k>>
  /\ UNCHANGED <<mv, snap, pinsReady, seen, seq, mutexes, motor, mbox, eeprom, dirPin, phase, cmd, target, forward,
                 absSteps, i, stepCount, pos, checkLimits, net, hist, obs>>

\* Seeded fault: homing recomputes the deploy target as calibrate does.
HomeEstablished_RecomputesSafe ==
  /\ pc = "home_ret0"
  /\ retractedPosition' = 0 /\ pc' = "done"
  /\ safeDeployedPosition' = deployedPosition - DEFAULT_SAFETY_BUFFER
  /\ UNCHANGED <<mv, snap, pinsReady, seen, seq, mutexes, currentPosition, deployedPosition,
                 safetyBuffer, calibrated, mbox, eeprom, dirPin, phase, locals,
                 net, hist, obs>>

\* retractedPosition = 0 after the setPosition(0) of the found branch.
HomeEstablished ==
  /\ pc = "home_ret0"
  /\ retractedPosition' = 0 /\ pc' = "done"
  /\ UNCHANGED <<mv, snap, pinsReady, seen, seq, mutexes, currentPosition, deployedPosition, safeDeployedPosition,
                 safetyBuffer, calibrated, mbox, eeprom, dirPin, phase, locals,
                 net, hist, obs>>

\* ---- end of an operation ----

\* Where the control thread continues after the operation it was running.
ReturnTo(ph) ==
  CASE ph = "setup" -> "su_tasks"
    [] ph = "serial" -> "mbox"
    [] ph = "task" -> "loop"
    [] OTHER -> "api"

\* The operation has returned: the locals die, the observation starts afresh.
Finish ==
  /\ pc = "done"
  /\ pc' = ReturnTo(phase)
  /\ k' = "none" /\ target' = 0 /\ forward' = FALSE /\ absSteps' = 0 /\ i' = 0
  /\ stepCount' = 0 /\ pos' = 0 /\ arg' = 0 /\ checkLimits' = TRUE
  /\ op' = "none" /\ pulses' = 0 /\ saves' = 0 /\ fwdHit' = FALSE /\ hitPos' = 0
  /\ hitDep' = 0 /\ lockMiss' = FALSE /\ loaded' = "none" /\ deqOver' = FALSE
  /\ startPos' = 0 /\ missed' = 0
  /\ cmd' = CMD_NONE
  /\ dirPin' = "unset"
  /\ afterDeploy' = IF op = "none" THEN afterDeploy ELSE (op = "deploy" /\ calibrated)
  /\ UNCHANGED <<snap, pinsReady, seen, seekRecorded, mutexes, motor, mbox, eeprom, phase, net>>

\* ---- starting an operation ----

StartCalibrate(ph) ==
  /\ op' = "calibrate" /\ phase' = ph
  /\ dirPin' = "LOW" /\ i' = 0 /\ pc' = "cal_r"
  /\ UNCHANGED <<stepCount, k, target>>

StartHome(ph) ==
  /\ op' = "home" /\ phase' = ph
  /\ dirPin' = "LOW" /\ stepCount' = 0 /\ pc' = "home_loop"
  /\ startPos' = currentPosition
  /\ UNCHANGED <<i, k, target>>

StartDeploy(ph) ==
  /\ op' = "deploy" /\ phase' = ph /\ pc' = "deploy"
  /\ UNCHANGED <<dirPin, i, stepCount, k, target>>

StartRetract(ph) ==
  /\ op' = "retract" /\ phase' = ph /\ pc' = "retract"
  /\ UNCHANGED <<dirPin, i, stepCount, k, target>>

\* ---- setup() of the firmware (main.cpp:81-171) ----

\* if (positionMutex == NULL || commandMutex == NULL): at least one of the two
\* xSemaphoreCreateMutex calls returned NULL.
CreateFailed(p, c) ==
  /\ p \in {"null", "free"} /\ c \in {"null", "free"}
  /\ (p = "null" \/ c = "null")

\* xSemaphoreCreateMutex twice; a NULL handle halts in while(1), before the
\* pinMode calls and the write that enables the driver.
SetupCreateMutexes ==
  /\ pc = "su_mutex"
  /\ \/ /\ positionMutex' = "free" /\ commandMutex' = "free"
        /\ pinsReady' = TRUE /\ pc' = "su_load"
     \/ /\ CreateFailed(positionMutex', commandMutex')
        /\ pc' = "halted" /\ UNCHANGED pinsReady
  /\ UNCHANGED <<mv, snap, seen, seq, motor, mbox, eeprom, dirPin, phase, locals, net, hist, obs>>

\* loadCalibrationFromEEPROM assigns the globals as it reads, before validating.
MainLoadedDeployed(e, old) == IF MagicMatches(e) THEN e.deployed ELSE old

\* Seeded fault: the stored buffer is read but not adopted.
MainLoadedBuffer_KeepsDefault(e, old) == old

MainLoadedBuffer(e, old) == IF MagicMatches(e) THEN e.buffer ELSE old

\* Seeded fault: a failed load goes on to create the tasks without calibrate().
SetupLoad_NoCalibrate ==
  /\ pc = "su_load"
  /\ deployedPosition' = MainLoadedDeployed(eeprom, deployedPosition)
  /\ seekRecorded' = FALSE
  /\ safetyBuffer' = MainLoadedBuffer(eeprom, safetyBuffer)
  /\ IF LoadCalibrationOk(eeprom)
     THEN /\ safeDeployedPosition' = SafeDeployed(deployedPosition', safetyBuffer')
          /\ retractedPosition' = 0
          /\ calibrated' = TRUE
          /\ loaded' = "true"
          /\ StartHome("setup")
     ELSE /\ loaded' = "false"
          /\ pc' = "su_tasks"
          /\ UNCHANGED <<op, phase, dirPin, i, stepCount, k, target>>
          /\ UNCHANGED <<safeDeployedPosition, retractedPosition, calibrated>>
  /\ IF LoadCalibrationOk(eeprom) THEN UNCHANGED missed ELSE UNCHANGED mv
  /\ UNCHANGED <<snap, pinsReady, afterDeploy, mutexes, currentPosition, mbox, eeprom, cmd, forward, absSteps,
                 pos, arg, checkLimits, net, pulses, saves, fwdHit, hitPos, hitDep,
                 lockMiss, deqOver>>
  /\ seen' = Observe(AfterLoad)

\* if (loadCalibrationFromEEPROM()) { isCalibrated = true; home } else calibrate
SetupLoad ==
  /\ pc = "su_load"
  /\ deployedPosition' = MainLoadedDeployed(eeprom, deployedPosition)
  /\ seekRecorded' = FALSE
  /\ safetyBuffer' = MainLoadedBuffer(eeprom, safetyBuffer)
  /\ IF LoadCalibrationOk(eeprom)
     THEN /\ safeDeployedPosition' = SafeDeployed(deployedPosition', safetyBuffer')
          /\ retractedPosition' = 0
          /\ calibrated' = TRUE
          /\ loaded' = "true"
          /\ StartHome("setup")
     ELSE /\ loaded' = "false"
          /\ StartCalibrate("setup")
          /\ UNCHANGED <<safeDeployedPosition, retractedPosition, calibrated>>
  /\ IF LoadCalibrationOk(eeprom) THEN UNCHANGED missed ELSE UNCHANGED mv
  /\ UNCHANGED <<snap, pinsReady, afterDeploy, mutexes, currentPosition, mbox, eeprom, cmd, forward, absSteps,
                 pos, arg, checkLimits, net, pulses, saves, fwdHit, hitPos, hitDep,
                 lockMiss, deqOver>>
  /\ seen' = Observe(AfterLoad)

\* xTaskCreatePinnedToCore twice: from here both tasks run.
SetupCreateTasks ==
  /\ pc = "su_tasks"
  /\ pc' = "loop" /\ phase' = "task" /\ npc' = "idle"
  /\ UNCHANGED <<mv, snap, pinsReady, seen, seq, mutexes, motor, mbox, eeprom, dirPin, locals, ncmd, hist, obs>>

\* ---- motorControlTask (main.cpp:183-294) ----

SerialChars == {"d", "r", "c", "s", "t"}

\* A character is available on the serial line and is dispatched.
SerialCommand(c) ==
  /\ pc = "loop"
  /\ CASE c = "d" -> StartDeploy("serial")
       [] c = "r" -> StartRetract("serial")
       [] c = "c" -> StartCalibrate("serial")
       [] c = "s" -> /\ op' = "status" /\ phase' = "serial"
                     /\ k' = "done" /\ pc' = "gp_take"
                     /\ UNCHANGED <<dirPin, i, stepCount, target>>
       [] OTHER   -> /\ op' = "test" /\ phase' = "serial"
                     /\ dirPin' = "HIGH" /\ i' = 0 /\ pc' = "test_loop"
                     /\ UNCHANGED <<stepCount, k, target>>
  /\ UNCHANGED <<mv, snap, pinsReady, seen, seq, mutexes, motor, mbox, eeprom, cmd, forward, absSteps, pos, arg,
                 checkLimits, net, pulses, saves, fwdHit, hitPos, hitDep,
                 lockMiss, obs>>

\* 't': 100 pulses toward deployment, no limit check, no position update.
TestPulse ==
  /\ pc = "test_loop"
  /\ IF i < TestPulses
     THEN pulses' = pulses + 1 /\ i' = i + 1 /\ UNCHANGED pc
     ELSE pc' = "done" /\ UNCHANGED <<pulses, i>>
  /\ UNCHANGED <<mv, snap, pinsReady, seen, seq, mutexes, motor, mbox, eeprom, dirPin, phase, k, cmd, target,
                 forward, absSteps, stepCount, pos, arg, checkLimits, net, op,
                 saves, fwdHit, hitPos, hitDep, lockMiss, obs>>

\* Seeded fault: the result of the take is ignored.
TaskTakeCommandMutex_IgnoresTimeout ==
  /\ pc \in {"loop", "mbox"}
  /\ \/ commandMutex = "free" /\ commandMutex' = "ctl" /\ pc' = "deq"
     \/ commandMutex = "net" /\ pc' = "deq" /\ UNCHANGED commandMutex
  /\ phase' = "task"
  /\ UNCHANGED <<mv, snap, pinsReady, seen, seq, positionMutex, motor, mbox, eeprom, dirPin, locals, net, hist, obs>>

\* xSemaphoreTake(commandMutex, 10 ms): on a timeout the iteration skips the
\* mailbox and the loop starts over after its delay.
TaskTakeCommandMutex ==
  /\ pc \in {"loop", "mbox"}
  /\ \/ commandMutex = "free" /\ commandMutex' = "ctl" /\ pc' = "deq"
     \/ commandMutex = "net" /\ pc' = "loop" /\ UNCHANGED commandMutex
  /\ phase' = "task"
  /\ UNCHANGED <<mv, snap, pinsReady, seen, seq, positionMutex, motor, mbox, eeprom, dirPin, locals, net, hist, obs>>

\* Seeded fault: the local copy is not taken from the mailbox.
Dequeued_Nothing(pending) == CMD_NONE

\* MotorCommand cmd = pendingCommand;
Dequeued(pending) == pending

\* Seeded fault: the mailbox is read but not reset.
TaskDequeue_KeepsCommand ==
  /\ pc = "deq"
  /\ cmd' = Dequeued(pendingCommand)
  /\ UNCHANGED pendingCommand
  /\ commandMutex' = "free"
  /\ deqOver' = overwrote /\ overwrote' = FALSE /\ lastStored' = CMD_NONE
  /\ CASE cmd' = CMD_DEPLOY -> StartDeploy("task")
       [] cmd' = CMD_RETRACT -> StartRetract("task")
       [] cmd' = CMD_CALIBRATE -> StartCalibrate("task")
       [] OTHER -> /\ pc' = "done"
                   /\ UNCHANGED <<op, phase, dirPin, i, stepCount, k, target>>
  /\ UNCHANGED <<mv, snap, pinsReady, seen, seq, positionMutex, motor, eeprom, forward, absSteps, pos, arg,
                 checkLimits, net, pulses, saves, fwdHit, hitPos, hitDep,
                 lockMiss, loaded>>

\* cmd = pendingCommand; pendingCommand = CMD_NONE; give; switch (cmd).
TaskDequeue ==
  /\ pc = "deq"
  /\ cmd' = Dequeued(pendingCommand)
  /\ pendingCommand' = CMD_NONE
  /\ commandMutex' = "free"
  /\ deqOver' = overwrote /\ overwrote' = FALSE /\ lastStored' = CMD_NONE
  /\ CASE cmd' = CMD_DEPLOY -> StartDeploy("task")
       [] cmd' = CMD_RETRACT -> StartRetract("task")
       [] cmd' = CMD_CALIBRATE -> StartCalibrate("task")
       [] OTHER -> /\ pc' = "done"
                   /\ UNCHANGED <<op, phase, dirPin, i, stepCount, k, target>>
  /\ UNCHANGED <<mv, snap, pinsReady, seen, seq, positionMutex, motor, eeprom, forward, absSteps, pos, arg,
                 checkLimits, net, pulses, saves, fwdHit, hitPos, hitDep,
                 lockMiss, loaded>>

\* ---- network thread: the web handlers ----
\* (main.cpp:968-1019, WebServerManager.cpp:15-27 and 215-245)

WebCommands == {CMD_DEPLOY, CMD_RETRACT, CMD_CALIBRATE}

\* Seeded fault: the routes queue without looking at the calibration flag.
WebRejected_Never(c, isCal) == FALSE

\* /api/deploy and /api/retract answer "Not calibrated" and return when not
\* calibrated; /api/calibrate always queues.
WebRejected(c, isCal) == c # CMD_CALIBRATE /\ ~isCal

\* The rejecting branch of /api/deploy and /api/retract: the error body is
\* sent and the handler returns without calling queueCommand.
WebRequestRejected(c) ==
  /\ npc = "idle"
  /\ WebRejected(c, calibrated)
  /\ npc' = "reject" /\ ncmd' = c
  /\ UNCHANGED <<mv, snap, pinsReady, seen, seq, mutexes, motor, mbox, eeprom, dirPin, pc, phase, locals,
                 hist, obs>>

WebReplyError ==
  /\ npc = "reject"
  /\ npc' = "idle" /\ ncmd' = CMD_NONE
  /\ UNCHANGED <<mv, snap, pinsReady, seen, seq, mutexes, motor, mbox, eeprom, dirPin, pc, phase, locals,
                 hist, obs>>

\* A command request that is not rejected calls queueCommand:
\* xSemaphoreTake(commandMutex, 100 ms); on a timeout nothing is stored and the
\* handler goes on to answer.
WebRequest(c) ==
  /\ npc = "idle"
  /\ ~WebRejected(c, calibrated)
  /\ \/ commandMutex = "free" /\ commandMutex' = "net" /\ npc' = "q_store"
        /\ ncmd' = c
     \/ commandMutex = "ctl" /\ npc' = "q_drop" /\ ncmd' = c
        /\ UNCHANGED commandMutex
  /\ UNCHANGED <<mv, snap, pinsReady, seen, seq, positionMutex, motor, mbox, eeprom, dirPin, pc, phase, locals,
                 hist, obs>>

\* queueCommand came back without storing (it returns void); the handler sends
\* its "command queued" answer all the same.
WebReplyQueued ==
  /\ npc = "q_drop"
  /\ npc' = "idle" /\ ncmd' = CMD_NONE
  /\ UNCHANGED <<mv, snap, pinsReady, seen, seq, mutexes, motor, mbox, eeprom, dirPin, pc, phase, locals,
                 hist, obs>>

\* Seeded fault: an unconsumed command is kept and the new one dropped.
Enqueued_KeepFirst(pending, c) == IF pending = CMD_NONE THEN c ELSE pending

\* What the mailbox holds after queueCommand(c): the new command, whatever
\* was pending.
Enqueued(pending, c) == c

\* pendingCommand = cmd; give; the handler sends its "command queued" answer.
QueueCommandStore ==
  /\ npc = "q_store"
  /\ pendingCommand' = Enqueued(pendingCommand, ncmd)
  /\ overwrote' = (pendingCommand \notin {CMD_NONE, ncmd}) /\ lastStored' = ncmd
  /\ commandMutex' = "free" /\ npc' = "idle" /\ ncmd' = CMD_NONE
  /\ UNCHANGED <<mv, snap, pinsReady, seen, seq, positionMutex, motor, eeprom, dirPin, pc, phase, locals, hist, obs>>

\* /api/status: getStatusJSON starts with getPosition().
StatusRequest ==
  /\ npc = "idle"
  /\ \/ positionMutex = "free" /\ positionMutex' = "net" /\ npc' = "st_read"
     \/ positionMutex = "ctl" /\ UNCHANGED <<positionMutex, npc>>
  /\ UNCHANGED <<mv, snap, pinsReady, seen, seq, commandMutex, motor, mbox, eeprom, dirPin, pc, phase, locals,
                 ncmd, hist, obs>>

StatusGetPositionRead ==
  /\ npc = "st_read"
  /\ positionMutex' = "free" /\ npc' = "idle"
  /\ UNCHANGED <<mv, snap, pinsReady, seen, seq, commandMutex, motor, mbox, eeprom, dirPin, pc, phase, locals,
                 ncmd, hist, obs>>

\* getStatusJSON statement by statement.  `long pos = getPosition()` is the
\* only read under a lock; first its take.
StatusJsonTake ==
  /\ npc = "idle"
  /\ \/ /\ positionMutex = "free" /\ positionMutex' = "net" /\ npc' = "sj_pos"
        /\ seen' = {<<calibrated, currentPosition, deployedPosition>>}
     \/ positionMutex = "ctl" /\ UNCHANGED <<positionMutex, npc, seen>>
  /\ UNCHANGED <<mv, snap, pinsReady, seq, commandMutex, motor, mbox, eeprom, dirPin,
                 pc, phase, locals, ncmd, hist, obs>>

\* pos = currentPosition and the give.
StatusJsonPosition ==
  /\ npc = "sj_pos"
  /\ spos' = currentPosition /\ positionMutex' = "free" /\ npc' = "sj_cal"
  /\ seen' = {t \in seen : t[2] = currentPosition}
  /\ UNCHANGED <<mv, scal, sdep, pinsReady, seq, commandMutex, motor, mbox, eeprom,
                 dirPin, pc, phase, locals, ncmd, hist, obs>>

\* "calibrated": isCalibrated, read with no lock held.
StatusJsonCalibrated ==
  /\ npc = "sj_cal"
  /\ scal' = calibrated /\ npc' = "sj_dep"
  /\ seen' = {t \in seen : t[1] = calibrated}
  /\ UNCHANGED <<mv, spos, sdep, pinsReady, seq, mutexes, motor, mbox, eeprom, dirPin,
                 pc, phase, locals, ncmd, hist, obs>>

\* "deployedPosition": deployedPosition, read with no lock held.
StatusJsonDeployed ==
  /\ npc = "sj_dep"
  /\ sdep' = deployedPosition /\ npc' = "sj_send"
  /\ seen' = {t \in seen : t[3] = deployedPosition}
  /\ UNCHANGED <<mv, spos, scal, pinsReady, seq, mutexes, motor, mbox, eeprom, dirPin,
                 pc, phase, locals, ncmd, hist, obs>>

\* request->send(200, "application/json", json): the response leaves.
StatusJsonSend ==
  /\ npc = "sj_send"
  /\ npc' = "idle" /\ spos' = 0 /\ scal' = FALSE /\ sdep' = 0 /\ seen' = {}
  /\ UNCHANGED <<mv, pinsReady, seq, mutexes, motor, mbox, eeprom, dirPin, pc, phase,
                 locals, ncmd, hist, obs>>

StatusJson ==
  \/ StatusJsonTake
  \/ StatusJsonPosition
  \/ StatusJsonCalibrated
  \/ StatusJsonDeployed
  \/ StatusJsonSend

\* ---- power cycle: RAM starts over, the EEPROM is kept ----

PowerCycle(first) ==
  /\ pc \in {"loop", "halted"}
  /\ npc \in {"idle", "off"}
  /\ positionMutex' = "null" /\ commandMutex' = "null"
  /\ currentPosition' = 0 /\ retractedPosition' = 0 /\ deployedPosition' = 0
  /\ safeDeployedPosition' = 0 /\ safetyBuffer' = DEFAULT_SAFETY_BUFFER
  /\ calibrated' = FALSE /\ pendingCommand' = CMD_NONE
  /\ dirPin' = "unset"
  /\ pc' = first /\ phase' = "setup" /\ k' = "none" /\ cmd' = CMD_NONE
  /\ target' = 0 /\ forward' = FALSE /\ absSteps' = 0 /\ i' = 0 /\ stepCount' = 0
  /\ pos' = 0 /\ arg' = 0 /\ checkLimits' = TRUE
  /\ npc' = "off" /\ ncmd' = CMD_NONE
  /\ op' = "none" /\ pulses' = 0 /\ saves' = 0 /\ fwdHit' = FALSE /\ hitPos' = 0
  /\ hitDep' = 0 /\ overwrote' = FALSE /\ lastStored' = CMD_NONE
  /\ lockMiss' = FALSE /\ loaded' = "none"
  /\ deqOver' = FALSE /\ seekRecorded' = FALSE /\ afterDeploy' = FALSE
  /\ pinsReady' = FALSE /\ spos' = 0 /\ scal' = FALSE /\ sdep' = 0 /\ seen' = {}
  /\ startPos' = 0 /\ missed' = 0
  /\ UNCHANGED eeprom

Reboot == PowerCycle("su_mutex")

\* ---- the firmware ----

NetworkCommands ==
  \/ \E c \in WebCommands : WebRequest(c)
  \/ QueueCommandStore
  \/ WebReplyQueued

NetworkStatus ==
  \/ StatusRequest
  \/ StatusGetPositionRead

Network ==
  \/ NetworkCommands
  \/ NetworkStatus

Motor ==
  \/ GetPositionTake
  \/ GetPositionRead
  \/ SetPositionTake
  \/ SetPositionWrite
  \/ MoveStepsLoop
  \/ MoveStepsUpdate
  \/ MoveStepsDeployedHit
  \/ MoveStepsRetractedHit
  \/ MoveStepsRetractedReset
  \/ Deploy
  \/ Retract
  \/ MoveToPositionCalc
  \/ CalibrateRetractSeek
  \/ CalibrateZeroed
  \/ CalibrateDeploySeek
  \/ CalibrateFinish
  \/ HomeSeek
  \/ HomeFinish
  \/ HomeEstablished
  \/ Finish

Next ==
  \/ SetupCreateMutexes
  \/ SetupLoad
  \/ SetupCreateTasks
  \/ \E c \in SerialChars : SerialCommand(c)
  \/ TestPulse
  \/ TaskTakeCommandMutex
  \/ TaskDequeue
  \/ Motor
  \/ Network
  \/ Reboot

Spec == Init /\ [][Next]_vars

\* The steps of the thread that runs setup() and then motorControlTask.
Control ==
  \/ SetupCreateMutexes
  \/ SetupLoad
  \/ SetupCreateTasks
  \/ TestPulse
  \/ TaskTakeCommandMutex
  \/ TaskDequeue
  \/ Motor

\* The firmware between two power cycles: the control thread, the serial line
\* and the command routes.
NextLive ==
  \/ Control
  \/ \E c \in SerialChars : SerialCommand(c)
  \/ NetworkCommands

\* The control task is pinned to its own core and never blocks for longer than
\* a timed take or a delay, so it always takes its next step; a web handler
\* that holds commandMutex is inside `pendingCommand = cmd; give` and leaves it.
\* Nothing is assumed about when requests or serial characters arrive.  The
\* status route is left out: it contends only for positionMutex, which the
\* control task takes with a timeout and never waits for.
SpecLive ==
  Init /\ [][NextLive]_vars /\ WF_vars(Control) /\ WF_vars(QueueCommandStore)

\* ---- the MotorControl class under its most general client ----
\* (SpecMC: the motor operations; SpecMQ: the command mailbox)

\* Seeded fault: initializePins runs before createMutexes.
McBegin_PinsFirst ==
  /\ pc = "mc_begin"
  /\ pinsReady' = TRUE
  /\ \/ /\ positionMutex' = "free" /\ commandMutex' = "free"
        /\ pc' = "api" /\ phase' = "api" /\ npc' = "idle"
     \/ /\ CreateFailed(positionMutex', commandMutex')
        /\ pc' = "halted" /\ UNCHANGED <<phase, npc>>
  /\ UNCHANGED <<mv, snap, seen, seq, motor, mbox, eeprom, dirPin, locals, ncmd, hist, obs>>

\* MotorControl::begin: createMutexes (halts on a NULL handle), initializePins.
McBegin ==
  /\ pc = "mc_begin"
  /\ \/ /\ positionMutex' = "free" /\ commandMutex' = "free"
        /\ pinsReady' = TRUE
        /\ pc' = "api" /\ phase' = "api" /\ npc' = "idle"
     \/ /\ CreateFailed(positionMutex', commandMutex')
        /\ pc' = "halted" /\ UNCHANGED <<pinsReady, phase, npc>>
  /\ UNCHANGED <<mv, snap, seen, seq, motor, mbox, eeprom, dirPin, locals, ncmd, hist, obs>>

\* MotorControl::loadStoredCalibration over Storage::loadCalibration: the stored
\* values reach the members only when the load returns true.
McLoadStoredCalibration ==
  /\ pc = "api"
  /\ IF LoadCalibrationOk(eeprom)
     THEN /\ deployedPosition' = eeprom.deployed
          /\ safetyBuffer' = eeprom.buffer
          /\ safeDeployedPosition' = SafeDeployed(eeprom.deployed, eeprom.buffer)
          /\ seekRecorded' = FALSE
          /\ retractedPosition' = 0
          /\ calibrated' = TRUE
          /\ loaded' = "true"
     ELSE /\ loaded' = "false"
          /\ UNCHANGED <<deployedPosition, safetyBuffer, safeDeployedPosition,
                         retractedPosition, calibrated, seekRecorded>>
  /\ op' = "load" /\ pc' = "done" /\ cmd' = CMD_NONE
  /\ UNCHANGED <<mv, snap, pinsReady, afterDeploy, mutexes, currentPosition, mbox, eeprom, dirPin, phase, k, target,
                 forward, absSteps, i, stepCount, pos, arg, checkLimits, net, pulses, saves, fwdHit, hitPos, hitDep, lockMiss,
                 deqOver>>
  /\ seen' = Observe(AfterLoad)

McCalibrate ==
  /\ pc = "api"
  /\ StartCalibrate("api")
  /\ cmd' = CMD_NONE
  /\ UNCHANGED <<mv, snap, pinsReady, seen, seq, mutexes, motor, mbox, eeprom, forward, absSteps, pos, arg,
                 checkLimits, net, pulses, saves, fwdHit, hitPos, hitDep,
                 lockMiss, obs>>

McHome ==
  /\ pc = "api"
  /\ StartHome("api")
  /\ cmd' = CMD_NONE
  /\ UNCHANGED <<missed, snap, pinsReady, seen, seq, mutexes, motor, mbox, eeprom, forward, absSteps, pos, arg,
                 checkLimits, net, pulses, saves, fwdHit, hitPos, hitDep,
                 lockMiss, obs>>

McDeploy ==
  /\ pc = "api"
  /\ StartDeploy("api")
  /\ cmd' = CMD_NONE
  /\ UNCHANGED <<mv, snap, pinsReady, seen, seq, mutexes, motor, mbox, eeprom, forward, absSteps, pos, arg,
                 checkLimits, net, pulses, saves, fwdHit, hitPos, hitDep,
                 lockMiss, obs>>

McRetract ==
  /\ pc = "api"
  /\ StartRetract("api")
  /\ cmd' = CMD_NONE
  /\ UNCHANGED <<mv, snap, pinsReady, seen, seq, mutexes, motor, mbox, eeprom, forward, absSteps, pos, arg,
                 checkLimits, net, pulses, saves, fwdHit, hitPos, hitDep,
                 lockMiss, obs>>

McMoveToPosition(t) ==
  /\ pc = "api"
  /\ op' = "moveToPosition" /\ target' = t /\ k' = "mtp_calc" /\ pc' = "gp_take"
  /\ cmd' = CMD_NONE
  /\ UNCHANGED <<mv, snap, pinsReady, seen, seq, mutexes, motor, mbox, eeprom, dirPin, phase, forward,
                 absSteps, i, stepCount, pos, arg, checkLimits, net, pulses, saves,
                 fwdHit, hitPos, hitDep, lockMiss, obs>>

McMoveSteps(n, cl) ==
  /\ pc = "api"
  /\ op' = "moveSteps"
  /\ MoveStepsEntry(n, cl)
  /\ cmd' = CMD_NONE
  /\ UNCHANGED <<snap, pinsReady, seen, seq, mutexes, motor, mbox, eeprom, phase, k, target, stepCount,
                 pos, arg, net, pulses, saves, fwdHit, hitPos, hitDep, lockMiss,
                 obs>>

\* getQueuedCommand: take (10 ms) the command mutex, read, give; CMD_NONE on a
\* timeout.  The mailbox is left as it is.
McGetQueuedCommandTake ==
  /\ pc = "api"
  /\ \/ commandMutex = "free" /\ commandMutex' = "ctl" /\ pc' = "mcq_get"
        /\ UNCHANGED cmd
     \/ commandMutex = "net" /\ cmd' = CMD_NONE /\ UNCHANGED <<commandMutex, pc>>
  /\ UNCHANGED <<mv, snap, pinsReady, seen, seq, positionMutex, motor, mbox, eeprom, dirPin, phase, k, target,
                 forward, absSteps, i, stepCount, pos, arg, checkLimits, net, hist,
                 obs>>

McGetQueuedCommandRead ==
  /\ pc = "mcq_get"
  /\ cmd' = pendingCommand
  /\ commandMutex' = "free" /\ pc' = "api"
  /\ UNCHANGED <<mv, snap, pinsReady, seen, seq, positionMutex, motor, mbox, eeprom, dirPin, phase, k, target,
                 forward, absSteps, i, stepCount, pos, arg, checkLimits, net, hist,
                 obs>>

\* clearQueuedCommand: take (10 ms) the command mutex, pendingCommand =
\* CMD_NONE, give; nothing on a timeout.
McClearQueuedCommandTake ==
  /\ pc = "api"
  /\ \/ commandMutex = "free" /\ commandMutex' = "ctl" /\ pc' = "mcq_clear"
     \/ commandMutex = "net" /\ UNCHANGED <<commandMutex, pc>>
  /\ UNCHANGED <<mv, snap, pinsReady, seen, seq, positionMutex, motor, mbox, eeprom, dirPin, phase, locals, net,
                 hist, obs>>

McClearQueuedCommandWrite ==
  /\ pc = "mcq_clear"
  /\ pendingCommand' = CMD_NONE
  /\ overwrote' = FALSE /\ lastStored' = CMD_NONE
  /\ commandMutex' = "free" /\ pc' = "api"
  /\ UNCHANGED <<mv, snap, pinsReady, seen, seq, positionMutex, motor, eeprom, dirPin, phase, locals, net, hist,
                 obs>>

NextMC ==
  \/ McBegin
  \/ McLoadStoredCalibration
  \/ McCalibrate
  \/ McHome
  \/ McDeploy
  \/ McRetract
  \/ \E t \in (0 - MaxMove)..MaxMove : McMoveToPosition(t)
  \/ \E n \in (0 - MaxMove)..MaxMove, cl \in BOOLEAN : McMoveSteps(n, cl)
  \/ Motor
  \/ NetworkStatus

SpecMC == InitMC /\ [][NextMC]_vars

\* The thread that calls into the class keeps running: a seek loop, a timed
\* take or a return is never suspended for ever.  Nothing is assumed about
\* what the client calls next or about the network task.
SpecMCFair == SpecMC /\ WF_vars(Motor)

\* The class operations that change what /api/status reports, against the
\* status route taken statement by statement.
NextST ==
  \/ McBegin
  \/ McLoadStoredCalibration
  \/ McCalibrate
  \/ McHome
  \/ McDeploy
  \/ McRetract
  \/ Motor
  \/ StatusJson

SpecST == InitMC /\ [][NextST]_vars

\* The command mailbox of the class: the web handlers' queueCommand against a
\* client that calls getQueuedCommand and clearQueuedCommand; loading the stored
\* calibration is what lets /api/deploy and /api/retract queue.
NextMQ ==
  \/ McBegin
  \/ McLoadStoredCalibration
  \/ Finish
  \/ McGetQueuedCommandTake
  \/ McGetQueuedCommandRead
  \/ McClearQueuedCommandTake
  \/ McClearQueuedCommandWrite
  \/ NetworkCommands
  \/ \E c \in WebCommands : WebRequestRejected(c)
  \/ WebReplyError

SpecMQ == InitMC /\ [][NextMQ]_vars

\* ======================= claims =======================

\* The operation motorControlTask's switch starts for a dequeued command.
OpOf(c) ==
  CASE c = CMD_DEPLOY -> "deploy"
    [] c = CMD_RETRACT -> "retract"
    [] c = CMD_CALIBRATE -> "calibrate"
    [] OTHER -> "none"

\* C1: the dequeue of motorControlTask returns the command stored last since
\* the previous dequeue (B), starts B's operation and no other, and leaves the
\* mailbox at CMD_NONE; a different command A that B replaced is neither
\* returned nor executed.
C1_LastWriteWins ==
  [][(pc = "deq" /\ pc' # "deq")
       => /\ cmd' = lastStored
          /\ op' = OpOf(lastStored)
          /\ pendingCommand' = CMD_NONE]_vars

\* C1 witness: a dequeue has returned a command that had replaced a different,
\* unconsumed one; its operation is starting and the mailbox is empty.
C1_Witness ==
  /\ deqOver /\ cmd # CMD_NONE /\ op = OpOf(cmd)
  /\ pc \in {"deploy", "retract", "cal_r"}
  /\ pendingCommand = CMD_NONE

\* C2: whenever a pending command is reset to CMD_NONE, the step that resets it
\* returns that very command to the control thread (read and reset are one
\* critical section).
C2_ResetReturnsCommand ==
  [][(pendingCommand # CMD_NONE /\ pendingCommand' = CMD_NONE)
       => cmd' = pendingCommand]_vars

\* C3: a pulse of a limit-checked moveSteps never takes Position from inside
\* 0 .. deployedPosition to below 0 or to more than one step past the deployed
\* endpoint.
C3_PositionWithinTravel ==
  [][(/\ pc = "ms_inc" /\ op = "moveSteps" /\ checkLimits /\ calibrated
      /\ currentPosition \in 0..deployedPosition)
       => currentPosition' \in 0..(deployedPosition + 1)]_vars

\* C4: deploy() or retract() entered while not calibrated returns at once: no
\* pulse, the direction output not written, Position, the deployed endpoint,
\* safeDeployedPosition and the EEPROM record unchanged.
C4_RejectedWhileUncalibrated ==
  [][(pc \in {"deploy", "retract"} /\ ~calibrated /\ pc' # pc)
       => /\ pc' = "done"
          /\ pulses' = 0 /\ dirPin' = "unset"
          /\ UNCHANGED <<currentPosition, deployedPosition,
                         safeDeployedPosition, eeprom>>]_vars

\* C4 witness: a deploy() or retract() has returned while not calibrated.
C4_Witness ==
  /\ pc = "done" /\ op \in {"deploy", "retract"} /\ ~calibrated
  /\ pulses = 0 /\ dirPin = "unset"

\* A deploy() has returned without a limit switch read asserted, in a state
\* whose deployed endpoint N is the count of calibrate's deploy seek, N > B > 0.
DeployAfterCalibrateDone ==
  /\ pc = "done" /\ op = "deploy" /\ k = "mtp_calc"
  /\ seekRecorded
  /\ deployedPosition > safetyBuffer /\ safetyBuffer > 0

\* C5 as stated: after calibrate recorded N with buffer B (N > B > 0),
\* safeDeployedPosition is N - B and a deploy() during which no limit switch
\* asserts ends with Position N - B.
C5_DeployEndsAtSafe ==
  DeployAfterCalibrateDone
    => /\ safeDeployedPosition = deployedPosition - safetyBuffer
       /\ currentPosition = deployedPosition - safetyBuffer

\* C5 amended: the same, for a deploy() in which every take of the position
\* mutex succeeded.
C5_DeployEndsAtSafeLocked ==
  (DeployAfterCalibrateDone /\ ~lockMiss)
    => /\ safeDeployedPosition = deployedPosition - safetyBuffer
       /\ currentPosition = deployedPosition - safetyBuffer

\* C5 witness: such a deploy() has moved the blind and stopped at N - B.
C5_Witness ==
  /\ DeployAfterCalibrateDone /\ ~lockMiss /\ pulses > 0
  /\ currentPosition = deployedPosition - safetyBuffer
  /\ currentPosition # deployedPosition

\* A retract() that directly followed a deploy() has returned, calibrated.
RetractAfterDeployDone ==
  pc = "done" /\ op = "retract" /\ calibrated /\ afterDeploy

\* C6 as stated: from any calibrated state, deploy() followed by retract()
\* returns Position to exactly 0.
C6_DeployRetractReturnsToZero ==
  RetractAfterDeployDone => currentPosition = 0

\* C6 amended: the same, for a retract() in which every take of the position
\* mutex succeeded and no read of the deployed limit switch was asserted.
C6_DeployRetractReturnsToZeroLocked ==
  (RetractAfterDeployDone /\ ~lockMiss /\ ~fwdHit) => currentPosition = 0

\* C6 witness: such a retract() has moved the blind back and stopped at 0.
C6_Witness ==
  /\ RetractAfterDeployDone /\ ~lockMiss /\ ~fwdHit
  /\ pulses > 0 /\ currentPosition = 0

\* C7: when calibrate() returns, safeDeployedPosition = deployedPosition -
\* safetyBuffer and retractedPosition = 0, whatever the limit switches read
\* during the run, the return-home retract included.
C7_CalibrateEndpoints ==
  (pc = "done" /\ op = "calibrate")
    => /\ safeDeployedPosition = deployedPosition - safetyBuffer
       /\ retractedPosition = 0

\* C7 witness: calibrate() has returned after a load that failed but left its
\* stored buffer in safetyBuffer, and its return-home retract moved the blind.
C7_Witness ==
  /\ pc = "done" /\ op = "calibrate" /\ loaded = "false"
  /\ safetyBuffer # DEFAULT_SAFETY_BUFFER /\ pulses > 0
  /\ safeDeployedPosition = deployedPosition - safetyBuffer

\* C8: a limit-checked move that read the deployed limit asserted at Position p
\* different from the recorded endpoint returns with deployedPosition = p,
\* safeDeployedPosition = p - safetyBuffer, Position = p and exactly one save,
\* of (p, safetyBuffer).
C8_CorrectionAtHit ==
  (/\ pc = "done" /\ fwdHit /\ hitPos # hitDep
   /\ op \in {"deploy", "retract", "moveToPosition", "moveSteps"})
    => /\ deployedPosition = hitPos
       /\ safeDeployedPosition = hitPos - safetyBuffer
       /\ currentPosition = hitPos
       /\ saves = 1
       /\ eeprom = [magic |-> TRUE, deployed |-> hitPos, buffer |-> safetyBuffer]

\* C9: a load that finds the marker missing, or the stored deployed value <= 0
\* or above the limit, returns false and leaves the state not calibrated.
C9_LoadRejectsInvalid ==
  [][(/\ pc = "su_load" /\ pc' # pc
      /\ \/ ~eeprom.magic
         \/ eeprom.deployed <= 0
         \/ eeprom.deployed > MaxStoredDeployed)
       => loaded' = "false" /\ ~calibrated /\ ~calibrated']_vars

\* C9 witness: the load at boot has returned false on a record whose marker
\* matches and whose deployed value is above the limit; not calibrated.
C9_Witness ==
  /\ loaded = "false" /\ ~calibrated /\ phase = "setup" /\ pc = "cal_r"
  /\ eeprom.magic /\ eeprom.deployed > MaxStoredDeployed

\* C10: a getPosition whose take times out returns the Position value that was
\* last read successfully; in the deployed-limit branch entered before the first
\* pulse of a moveToPosition whose own getPosition succeeded, that is the value
\* pos it read, which Position still holds.
C10_TimeoutReturnsLastRead ==
  [][(/\ pc = "gp_take" /\ k = "ms_fhit" /\ pc' = k
      /\ op \in {"deploy", "retract", "moveToPosition"}
      /\ ~lockMiss /\ i = 0 /\ pos > 0 /\ pos = currentPosition)
       => pos' = pos]_vars

\* C11: when setPosition cannot take the position lock within its timeout, the
\* write is dropped: the stored Position keeps its old value, nothing else of
\* the motor state changes, and control goes straight back to the caller.
C11_TimeoutDropsWrite ==
  [][(pc = "sp_take" /\ positionMutex = "net" /\ pc' # "sp_take")
       => (currentPosition' = currentPosition /\ pc' = k /\ UNCHANGED motor)]_vars

\* A dropped write that mattered: the caller asked for a value other than the
\* one that stays stored.
C11_Witness ==
  pc = k /\ lockMiss /\ pc \in {"cal_d0", "done", "ms_bhit2"} /\ arg # currentPosition
    /\ op \in {"calibrate", "deploy", "retract", "home"}

\* C12: in every calibrated state the position deploy() sets out for is
\* safeDeployed, and it lies strictly below the raw deployed endpoint.
C12_DeployTargetBelowEndpoint ==
  (op = "deploy" /\ calibrated /\ pc = "gp_take" /\ k = "mtp_calc")
    => (target = safeDeployedPosition /\ target < deployedPosition)

\* C13: calibrated goes from false to true only in the last step of a
\* calibrate() run or in a load whose record carries the marker and a deployed
\* value within 0 < deployed <= limit; no step of deploy, retract, homing,
\* moveSteps, moveToPosition or the status query raises it.
C13_CalibratedOnlyByCalibrateOrLoad ==
  [][(~calibrated /\ calibrated')
       => \/ pc = "cal_fin" /\ op = "calibrate"
          \/ /\ pc \in {"api", "su_load"} /\ loaded' = "true"
             /\ eeprom.magic /\ eeprom.deployed > 0
             /\ eeprom.deployed <= MaxStoredDeployed
             /\ deployedPosition' = eeprom.deployed]_vars

\* A validated load has just made the state calibrated.
C13_Witness ==
  /\ pc = "done" /\ op = "load" /\ loaded = "true" /\ calibrated
  /\ eeprom.magic /\ deployedPosition = eeprom.deployed

\* C14: calibrate() and homeToRetractedPosition() always return, whatever the
\* limit switches read: no seek emits more than maxCalibrationSteps pulses, and
\* once the operation has returned the caller is back where the next call is
\* accepted.
C14_SeeksTerminate ==
  /\ [](pc \in {"cal_r", "cal_d", "home_loop"} => pulses <= maxCalibrationSteps)
  /\ (op \in {"calibrate", "home"}) ~> (pc = "api" /\ op = "none")

\* A seek has used its whole budget without a limit hit ending it.
C14_Witness ==
  /\ pc \in {"cal_d", "home_loop"} /\ op \in {"calibrate", "home"}
  /\ pulses = maxCalibrationSteps /\ stepCount = maxCalibrationSteps

\* The run has come to a moveToPosition whose move would leave the explored
\* window of positions; the model follows it no further.
C15_AtWindowEdge ==
  /\ pc = "mtp_calc" /\ StepsToMove(target, pos) # 0
  /\ currentPosition + StepsToMove(target, pos) \notin (0 - PosMax)..PosMax

\* C15: a command stored in the mailbox is dequeued by the control task unless
\* a later enqueue gets the mailbox first, and a command the control task has
\* dequeued is executed until its operation returns, also when it was stored
\* while an earlier operation was still running.  (Runs that leave the
\* explored window of positions are followed up to its edge.)
C15_StoredCommandExecuted ==
  \A c \in WebCommands :
    /\ (pendingCommand = c)
         ~> \/ pendingCommand = CMD_NONE /\ cmd = c /\ phase = "task"
            \/ npc = "q_store"
            \/ C15_AtWindowEdge
    /\ (cmd = c /\ phase = "task")
         ~> \/ pc = "done" /\ cmd = c /\ phase = "task" /\ op = OpOf(c)
            \/ C15_AtWindowEdge

\* A command has been stored while the calibration dequeued before it is still
\* in its deploy seek.
C15_Witness ==
  /\ pendingCommand = CMD_RETRACT /\ lastStored = CMD_RETRACT /\ npc = "idle"
  /\ phase = "task" /\ cmd = CMD_CALIBRATE /\ pc = "cal_d" /\ pulses > 0

\* C16: while not calibrated, a deploy or retract request is answered with the
\* error and the handler returns with the mailbox exactly as it found it; a
\* calibrate request is never answered that way: it goes on to queueCommand
\* whether or not the state is calibrated.
C16_RejectedLeavesMailbox ==
  [][/\ (npc = "idle" /\ npc' # "idle" /\ ~calibrated)
          => IF ncmd' = CMD_CALIBRATE
             THEN npc' \in {"q_store", "q_drop"}
             ELSE npc' = "reject" /\ UNCHANGED <<mbox, commandMutex>>
     /\ (npc = "idle" /\ npc' # "idle" /\ calibrated)
          => npc' \in {"q_store", "q_drop"}
     /\ (npc = "reject" /\ npc' # "reject")
          => npc' = "idle" /\ UNCHANGED <<mbox, commandMutex>>]_vars

\* A calibrate request was queued while not calibrated, and a deploy request
\* has then been rejected with that command still in the mailbox.
C16_Witness ==
  /\ npc = "reject" /\ ncmd = CMD_DEPLOY /\ ~calibrated
  /\ pendingCommand = CMD_CALIBRATE

\* C18: when a mutex handle comes back NULL the process is halted at that
\* point for good: no pin has been configured or driven, no step pulse was
\* emitted, no load, calibration or homing has run, the network side was never
\* started, and no step of the program is possible from there.
C18_HaltBeforeAnything ==
  pc = "halted"
    => /\ ~pinsReady /\ dirPin = "unset" /\ pulses = 0
       /\ op = "none" /\ loaded = "none" /\ ~calibrated /\ saves = 0
       /\ phase = "setup" /\ npc = "off"
       /\ (positionMutex = "null" \/ commandMutex = "null")
       /\ ~ENABLED NextMC

\* Halted with one of the two mutexes created and the other one NULL.
C18_Witness ==
  pc = "halted" /\ positionMutex = "free" /\ commandMutex = "null"

\* C17: the calibrated flag, the position and the deployed endpoint of a status
\* response all held together at one instant of the control thread's execution
\* between the start of the handler and the sending of the response.
C17_ConsistentSnapshot ==
  [][(npc = "sj_send" /\ npc' = "idle") => <<scal, spos, sdep>> \in seen]_vars

\* The running moveSteps call has sampled the limit switch for its direction
\* of travel asserted.
C19_LimitSampledAsserted ==
  /\ op \in {"deploy", "retract", "moveToPosition", "moveSteps", "calibrate"}
  /\ checkLimits
  /\ (fwdHit \/ k \in {"ms_bhit", "ms_bhit2"})

\* C19: in a limit-checked moveSteps every pulse follows a sample of the limit
\* switch for the direction of travel that read not asserted; once a sample
\* has read asserted the call emits no further pulse and goes through no
\* further iteration, and it returns with the remaining steps unissued.
C19_NoPulseAfterLimit ==
  [][/\ (C19_LimitSampledAsserted /\ pc # "done")
          => /\ pulses' = pulses /\ i' = i
             /\ pc' \notin {"ms_loop", "ms_inc"}
             /\ C19_LimitSampledAsserted'
     /\ (C19_LimitSampledAsserted' /\ pc' = "done")
          => pulses' = i' /\ i' < absSteps'
     /\ (pc \in {"ms_loop", "ms_inc"} /\ checkLimits /\ pulses' > pulses)
          => ~C19_LimitSampledAsserted]_vars

\* A limit-checked move toward deployment has returned on an asserted sample
\* after at least one pulse and with steps left.
C19_Witness ==
  /\ pc = "done" /\ fwdHit /\ checkLimits /\ pulses > 0 /\ pulses = i
  /\ i < absSteps

RequestedDelta == IF forward THEN absSteps ELSE 0 - absSteps

\* A moveSteps call has returned after its loop ran out: no read of a checked
\* limit switch was asserted.
MoveStepsRanOut ==
  pc = "done" /\ op = "moveSteps" /\ ~C19_LimitSampledAsserted

\* C21: a moveSteps(n, checkLimits) during which no checked limit switch
\* asserts and every take of the position mutex succeeds emits exactly |n|
\* pulses with the direction output at the level of the sign of n and changes
\* Position by exactly n; moveSteps(0) emits no pulse, does not write the
\* direction output and leaves Position unchanged.
C21_MoveStepsExact ==
  (MoveStepsRanOut /\ ~lockMiss)
    => /\ pulses = absSteps
       /\ currentPosition = startPos + RequestedDelta
       /\ absSteps > 0 => dirPin = (IF forward THEN "HIGH" ELSE "LOW")
       /\ absSteps = 0 => (dirPin = "unset" /\ currentPosition = startPos)

\* C21 witness: a two-pulse move toward retraction has returned with every
\* take successful and Position two lower.
C21_Witness ==
  /\ MoveStepsRanOut /\ ~lockMiss
  /\ ~forward /\ pulses = 2 /\ dirPin = "LOW" /\ currentPosition = startPos - 2

\* C22: when the position mutex cannot be taken after a pulse of moveSteps,
\* the pulse has been emitted, Position is not changed for it, the move goes
\* on with the remaining pulses and the update is never made up: a move whose
\* loop ran out has emitted all its pulses, and Position differs from the
\* requested delta by exactly the number of failed takes.
C22_MissedUpdateNeverApplied ==
  MoveStepsRanOut
    => /\ pulses = absSteps
       /\ missed <= absSteps
       /\ currentPosition - startPos
            = IF forward THEN absSteps - missed ELSE missed - absSteps

\* C22 witness: a two-pulse move toward deployment lost the take after one of
\* its pulses and ended one step short of the requested delta.
C22_Witness ==
  /\ MoveStepsRanOut /\ forward /\ pulses = 2 /\ missed = 1
  /\ currentPosition = startPos + 1


\* C23: moveToPosition(target) emits no pulse and changes no state when target
\* equals the current Position; otherwise it performs exactly one
\* moveSteps(target - currentPosition) with limit checking enabled.
C23_MoveToPositionDelta ==
  [][(pc = "mtp_calc" /\ op = "moveToPosition" /\ pc' # pc)
       => IF target = currentPosition
          THEN pc' = "done" /\ UNCHANGED <<motor, eeprom, dirPin, pulses>>
          ELSE /\ pc' = "ms_loop" /\ checkLimits' /\ i' = 0
               /\ forward' = (target > currentPosition)
               /\ absSteps' = (IF target > currentPosition
                               THEN target - currentPosition
                               ELSE currentPosition - target)]_vars


\* C24: homeToRetractedPosition() never changes the deployed endpoint,
\* safeDeployed, safetyBuffer, the calibration flag or the persisted record,
\* whether or not the retracted limit is found; Position and the retracted
\* endpoint change only in the branch taken when the switch reads asserted at
\* the end of the seek.
C24_HomeTouchesOnlyHome ==
  [][(op = "home" /\ op' = "home")
       => /\ UNCHANGED <<deployedPosition, safeDeployedPosition, safetyBuffer,
                         calibrated, eeprom>>
          /\ (currentPosition' # currentPosition
                \/ retractedPosition' # retractedPosition) => k = "home_ret0"]_vars

\* C24 witness: a homing that spent its whole budget, then found the switch
\* asserted and zeroed Position, has returned with the loaded calibration.
C24_Witness ==
  /\ pc = "done" /\ op = "home" /\ k = "home_ret0" /\ ~lockMiss
  /\ stepCount = maxCalibrationSteps /\ currentPosition = 0
  /\ calibrated /\ deployedPosition = 2 /\ safeDeployedPosition = 2


\* C25 as stated: when a retracted-limit seek (the first phase of calibrate(),
\* or homeToRetractedPosition()) uses up its step budget without the
\* retracted-limit switch ever reading asserted, Position is nevertheless 0
\* afterwards.
C25_ExhaustedSeekZeroes ==
  /\ (pc = "cal_d0" /\ op = "calibrate" /\ i = maxCalibrationSteps)
       => currentPosition = 0
  /\ (pc = "done" /\ op = "home" /\ stepCount = maxCalibrationSteps
        /\ k # "home_ret0")
       => currentPosition = 0

\* C25 amended: after the retract seek of calibrate() used up its budget,
\* Position is 0 provided the take of its setPosition(0) succeeded; after
\* homeToRetractedPosition() used up its budget and the switch still reads
\* released, Position is what it was before the homing.
C25_ExhaustedSeekZeroesInCalibrate ==
  /\ (pc = "cal_d0" /\ op = "calibrate" /\ i = maxCalibrationSteps /\ ~lockMiss)
       => currentPosition = 0
  /\ (pc = "done" /\ op = "home" /\ stepCount = maxCalibrationSteps
        /\ k # "home_ret0")
       => currentPosition = startPos

\* C25 witness: a homing begun at a nonzero Position spent its whole budget and
\* returned without the switch reading asserted.
C25_Witness ==
  /\ pc = "done" /\ op = "home" /\ stepCount = maxCalibrationSteps
  /\ pulses = maxCalibrationSteps /\ k # "home_ret0"
  /\ startPos # 0 /\ currentPosition = startPos


\* C26 as stated: the deployed endpoint recorded by calibrate() equals the
\* number of pulses of its deploy seek, so it lies between 0 and the step
\* budget, and Position holds that same value before the return-home move
\* starts.
C26_EndpointIsSeekCount ==
  (pc = "cal_fin" /\ op = "calibrate")
    => /\ deployedPosition = pulses
       /\ deployedPosition \in 0..maxCalibrationSteps
       /\ currentPosition = deployedPosition

\* C26 amended: the same, with Position equal to the endpoint provided every
\* take of the position mutex in calibrate() so far succeeded.
C26_EndpointIsSeekCountLocked ==
  (pc = "cal_fin" /\ op = "calibrate")
    => /\ deployedPosition = pulses
       /\ deployedPosition \in 0..maxCalibrationSteps
       /\ ~lockMiss => currentPosition = deployedPosition

\* C26 witness: a deploy seek that spent the whole budget has recorded it as
\* the endpoint and set Position to it; the return-home move is about to start.
C26_Witness ==
  /\ pc = "cal_fin" /\ op = "calibrate" /\ ~lockMiss
  /\ pulses = maxCalibrationSteps /\ deployedPosition = maxCalibrationSteps
  /\ currentPosition = maxCalibrationSteps


\* calibrate() has not reached its save yet: the two seeks and their
\* setPosition calls.
CalibrateBeforeSave ==
  /\ op = "calibrate"
  /\ \/ pc \in {"cal_r", "cal_d0", "cal_d", "cal_fin"}
     \/ pc \in {"sp_take", "sp_write"} /\ k \in {"cal_d0", "cal_fin"}

\* calibrate() is in its return-home retract, or has returned from it.
CalibrateReturnHome == op = "calibrate" /\ ~CalibrateBeforeSave

\* C27: calibrate() performs its steps in this order: retract seek, Position
\* and retracted endpoint zeroed, deploy seek, endpoint and safeDeployed set,
\* calibrated set, the record (deployed, safetyBuffer) saved exactly once, and
\* only then the return-home retract; no pulse of the return-home move is
\* emitted before the save.  (A second save can only come from the limit
\* correction inside the return-home move.)
C27_CalibrateOrder ==
  /\ [](CalibrateBeforeSave => saves = 0)
  /\ []((op = "calibrate" /\ pc = "cal_r") => dirPin = "LOW")
  /\ []((op = "calibrate" /\ (pc \in {"cal_d", "cal_fin"} \/ k = "cal_fin"))
         => (retractedPosition = 0 /\ dirPin = "HIGH"))
  /\ []((op = "calibrate" /\ (pc = "cal_fin" \/ k = "cal_fin"))
         => deployedPosition = stepCount)
  /\ []((op = "calibrate" /\ pc = "gp_take" /\ k = "mtp_calc")
         => /\ saves = 1 /\ pulses = 0 /\ calibrated
            /\ eeprom = SavedRecord(deployedPosition, safetyBuffer)
            /\ safeDeployedPosition = deployedPosition - safetyBuffer)
  /\ []((CalibrateReturnHome /\ pc = "done")
         => (saves = 1 \/ (fwdHit /\ saves = 2)))
  /\ [][(CalibrateBeforeSave /\ CalibrateBeforeSave')
          => /\ UNCHANGED <<calibrated, safeDeployedPosition, eeprom>>
             /\ (pc # "cal_d" => UNCHANGED deployedPosition)]_vars

\* C27 witness: the return-home move of a calibrate() that measured a nonzero
\* endpoint has emitted its first pulse, after the one save.
C27_Witness ==
  /\ CalibrateReturnHome /\ pc \in {"ms_loop", "ms_inc"} /\ pulses = 1
  /\ saves = 1 /\ calibrated /\ deployedPosition = 2
  /\ eeprom = SavedRecord(2, safetyBuffer)


\* C28: when calibrate() returns, Position is 0, for every deployed count it
\* measured (0 included) and whether the return-home move ended by step count
\* or at the retracted-limit switch, provided every take of the position mutex
\* succeeded.
C28_CalibrateEndsHome ==
  (pc = "done" /\ op = "calibrate" /\ ~lockMiss) => currentPosition = 0

\* C28 witness: a calibrate() that measured 2 steps has returned after its
\* return-home move was cut short by the retracted-limit switch and zeroed
\* Position.
C28_Witness ==
  /\ pc = "done" /\ op = "calibrate" /\ ~lockMiss
  /\ deployedPosition = 2 /\ k = "ms_bhit2" /\ pulses = 1
  /\ currentPosition = 0


\* C29: the load at boot succeeds exactly when the marker matches and the
\* stored deployed value is above 0 and at most the limit; on success the
\* stored deployed value and buffer are adopted, safeDeployed is their
\* difference, the retracted endpoint is 0, the state is calibrated, and boot
\* goes on to homing: until setup is over no calibration runs and nothing is
\* written to the EEPROM.  Otherwise boot calibrates.
C29_LoadAtBoot ==
  /\ [][(pc = "su_load" /\ pc' # pc)
          => /\ (loaded' = "true")
                  <=> (eeprom.magic /\ eeprom.deployed > 0
                         /\ eeprom.deployed <= MaxStoredDeployed)
             /\ (loaded' = "true")
                  => /\ deployedPosition' = eeprom.deployed
                     /\ safetyBuffer' = eeprom.buffer
                     /\ safeDeployedPosition' = eeprom.deployed - eeprom.buffer
                     /\ retractedPosition' = 0
                     /\ calibrated' /\ op' = "home"
             /\ (loaded' # "true") => (op' = "calibrate" /\ ~calibrated')]_vars
  /\ []((phase = "setup" /\ loaded = "true")
          => /\ op = "home" /\ saves = 0 /\ calibrated
             /\ eeprom = SavedRecord(deployedPosition, safetyBuffer)
             /\ safeDeployedPosition = deployedPosition - safetyBuffer)
  /\ [][(phase = "setup" /\ loaded = "true") => UNCHANGED eeprom]_vars

\* C29 witness: boot has loaded a record whose buffer is not the default, has
\* homed on it and is about to start the tasks, with no save made.
C29_Witness ==
  /\ phase = "setup" /\ pc = "done" /\ op = "home" /\ loaded = "true"
  /\ calibrated /\ saves = 0 /\ pulses > 0
  /\ safetyBuffer = eeprom.buffer /\ safetyBuffer # DEFAULT_SAFETY_BUFFER
  /\ deployedPosition = eeprom.deployed


\* C30: every write to Position is made by the control thread (setup, then the
\* control task) while it holds the position mutex, and every read or write of
\* the pending command is made while the accessing task holds the command
\* mutex; the network task never writes Position.  (A power cycle restarts the
\* program with its static initialisers and is no task's write.)
C30_SharedUnderLocks ==
  /\ [][(currentPosition' # currentPosition /\ pc' # "su_mutex")
          => /\ positionMutex = "ctl" /\ pc \in {"sp_write", "ms_inc"}
             /\ UNCHANGED net]_vars
  /\ [][(pendingCommand' # pendingCommand /\ pc' # "su_mutex")
          => \/ commandMutex = "ctl" /\ pc = "deq" /\ UNCHANGED net
             \/ commandMutex = "net" /\ npc = "q_store" /\ UNCHANGED pc]_vars
  /\ [](pc = "deq" => commandMutex = "ctl")
  /\ [](npc = "q_store" => commandMutex = "net")
  /\ [](pc \in {"sp_write", "ms_inc", "gp_read"} => positionMutex = "ctl")
  /\ [](npc = "st_read" => positionMutex = "net")

\* C30 witness: the control task is about to write Position inside a move it
\* dequeued, holding the position mutex, while the network task holds the
\* command mutex to store the next command.
C30_Witness ==
  /\ phase = "task" /\ pc = "ms_inc" /\ positionMutex = "ctl"
  /\ npc = "q_store" /\ commandMutex = "net" /\ pulses > 0


\* The control task is between operations: at the top of its loop.
ControlIdle == pc = "loop" /\ phase = "task" /\ op = "none"

\* C31: in every state where the state is calibrated and no operation is in
\* progress, the deployed endpoint is strictly greater than 0 and the
\* retracted endpoint is 0.
C31_CalibratedRange ==
  (ControlIdle /\ calibrated) => (deployedPosition > 0 /\ retractedPosition = 0)


\* C32: a load that fails validation leaves the in-memory range untouched: the
\* deployed endpoint, safetyBuffer and safeDeployed keep the values they had
\* before the load (at boot: 0, the configured default, 0), so the calibration
\* that follows at boot uses the default safety buffer and not a value read
\* from the rejected record.
C32_RejectedLoadLeavesRange ==
  /\ (phase = "setup" /\ loaded = "false" /\ pc = "cal_r")
       => /\ deployedPosition = 0 /\ safeDeployedPosition = 0
          /\ safetyBuffer = DEFAULT_SAFETY_BUFFER
  /\ (phase = "setup" /\ loaded = "false" /\ op = "calibrate")
       => safetyBuffer = DEFAULT_SAFETY_BUFFER


\* C33: every (deployed, safetyBuffer) pair the engine persists, from
\* calibrate() or from a limit-hit correction, is accepted by the next load
\* after a power cycle: the record just saved carries the marker and a
\* deployed value the load's range check lets through.
C33_SavedRecordLoads ==
  (saves > 0)
    => /\ eeprom = SavedRecord(deployedPosition, safetyBuffer)
       /\ eeprom.magic /\ eeprom.deployed > 0
       /\ eeprom.deployed <= MaxStoredDeployed


\* C34: whenever the control task is idle and the state is calibrated, the
\* persisted record equals the in-memory deployed endpoint and safetyBuffer,
\* and safeDeployed equals deployed - safetyBuffer.
C34_RecordMatchesMemory ==
  (ControlIdle /\ calibrated)
    => /\ eeprom.magic
       /\ eeprom.deployed = deployedPosition /\ eeprom.buffer = safetyBuffer
       /\ safeDeployedPosition = deployedPosition - safetyBuffer

\* C34 witness: the control task is idle and calibrated with an endpoint that
\* no initial record holds, so it was measured or corrected and then saved.
C34_Witness ==
  /\ ControlIdle /\ calibrated /\ deployedPosition = 1
  /\ eeprom.magic /\ eeprom.deployed = 1 /\ eeprom.buffer = safetyBuffer
  /\ safeDeployedPosition = 1 - safetyBuffer


\* C35: from the moment the control task and the network task are created,
\* the state is calibrated in every reachable state: boot sets the flag by a
\* validated load or by calibrate(), and no operation resets it.
C35_CalibratedOnceRunning ==
  (phase # "setup") => calibrated

\* C35 witness: the control task is re-running calibrate() on a dequeued
\* command, its deploy seek has spent the whole budget, and the flag still
\* stands.
C35_Witness ==
  /\ phase = "task" /\ op = "calibrate" /\ pc = "cal_d"
  /\ pulses = maxCalibrationSteps /\ calibrated


\* C36: no task ever holds the position mutex and the command mutex at the
\* same time, and every mutex taken is given back before its holder performs a
\* timed wait, a pulse or a persistence write: the control thread holds the
\* position mutex only in the step that reads or writes Position and the
\* command mutex only in its dequeue, the network task holds each only in the
\* step that reads Position or stores the command, and no pulse or save
\* happens while the control thread holds a mutex.
C36_LocksNotNested ==
  /\ [](~(positionMutex = "ctl" /\ commandMutex = "ctl"))
  /\ [](~(positionMutex = "net" /\ commandMutex = "net"))
  /\ [](positionMutex = "ctl" => pc \in {"gp_read", "sp_write", "ms_inc"})
  /\ [](commandMutex = "ctl" => pc = "deq")
  /\ [](positionMutex = "net" => npc = "st_read")
  /\ [](commandMutex = "net" => npc = "q_store")
  /\ [][(pulses' > pulses \/ saves' > saves \/ eeprom' # eeprom)
          => (positionMutex # "ctl" /\ commandMutex # "ctl")]_vars

\* C36 witness: in the middle of a dequeued move the control task holds the
\* position mutex for one update, with the command mutex held by the network
\* task and the previous pulse already emitted.
C36_Witness ==
  /\ phase = "task" /\ op \in {"deploy", "retract"} /\ pc = "ms_inc"
  /\ positionMutex = "ctl" /\ commandMutex = "net" /\ pulses = 2


C38_QueuedAnswerMeansStored ==
  [][(npc \in {"q_store", "q_drop"} /\ npc' = "idle")
       => pendingCommand' = ncmd]_vars


\* C39: in no operation reachable from the control task's command surface is
\* a pulse toward deployment emitted without the deployed-limit switch having
\* been sampled as not asserted immediately before it, and every such pulse is
\* reflected in Position or in the step count being measured.
C39_DeployPulseGuarded ==
  [][(pulses' > pulses /\ dirPin = "HIGH" /\ phase \in {"task", "serial"})
       => \/ /\ pc = "ms_loop" /\ checkLimits /\ forward
             /\ pc' = "ms_inc"
          \/ /\ pc = "cal_d" /\ stepCount' = stepCount + 1]_vars

====
